---- MODULE Spec2Model ----
(***************************************************************************)
(* Model of the train-schedule / arrival-report Telegram bot               *)
(* (src/app.py, with the older schedule-only revision src/App.py).         *)
(*                                                                         *)
(* Time is epoch seconds.  A time-of-day string "HH:MM" is the pair        *)
(* <<h, m>>; a time-of-day object is the triple <<h, m, s>>.  An ObjectId  *)
(* string is a positive integer; any other callback suffix (one that       *)
(* ObjectId.is_valid rejects) is a non-positive integer.  str(user_id) is  *)
(* the sequence of the decimal digits of user_id.  A missing dictionary    *)
(* key / Python None is the string "None".                                 *)
(***************************************************************************)
EXTENDS Integers, Sequences, FiniteSets, TLC

VARIABLES
    go_schedule,        \* schedules.go_schedule: station -> list of "HH:MM"
    return_schedule,    \* schedules.return_schedule
    reports_collection, \* app.py:30  TRUE iff the global is not None
    MONGO_AVAILABLE,    \* app.py:31 / :90
    reports,            \* documents of the collection, in insertion order
    nextId,             \* next ObjectId the store hands out
    user_data,          \* context.user_data of every user
    now,                \* the wall clock, epoch seconds
    last,               \* the last update handled: input, outcome, messages
    deleted,            \* history: report id -> number of deletes that returned True
    upvotes,            \* Report.upvotes   (spec section 3)
    downvotes,          \* Report.downvotes (spec section 3)
    userVotes,          \* Report.userVotes (spec section 3)
    voteOp              \* castVote invocation in flight, per user

vars == <<go_schedule, return_schedule, reports_collection, MONGO_AVAILABLE,
          reports, nextId, user_data, now, last, deleted,
          upvotes, downvotes, userVotes, voteOp>>

storeVars == <<reports_collection, MONGO_AVAILABLE, reports, nextId, deleted>>
schedVars == <<go_schedule, return_schedule>>
voteVars  == <<upvotes, downvotes, userVotes, voteOp>>

-----------------------------------------------------------------------------
(* Bounds *)

NumUsers   == 2     \* Telegram users 1..NumUsers
MaxReports == 2     \* ObjectIds the store hands out: 1..MaxReports
MaxTrains  == 3     \* longest timetable of a station
MaxStations == 3    \* most stations of one direction's timetable
MaxStored  == 3     \* most reports in the store when the views are exercised
\* the largest number of reports in the store of the delete-menu runs
MaxMenu == 17

Users    == 1..NumUsers
Ids      == 1..MaxReports
\* suffixes a confirm_delete_my_report_ callback may carry: a string that is no
\* ObjectId (0), every id handed out, and one valid id never handed out
ReqIds   == 0..(MaxReports + 1)

-----------------------------------------------------------------------------
(* Program constants *)

DIRECTION_GO     == "go"
DIRECTION_RETURN == "return"
Directions       == {DIRECTION_GO, DIRECTION_RETURN}
None             == "None"

\* grouped_reports_list[:10] and sorted(...)[:15]
ViewLimit       == 10
DeleteMenuLimit == 15

SecPerMin  == 60
SecPerHour == 3600
SecPerDay  == 86400
\* Africa/Algiers: UTC+01:00 all year (now(tz), fromtimestamp(ts, tz))
UtcOffset  == 3600
\* datetime.replace(tzinfo=<pytz zone>) attaches the zone's first entry,
\* LMT+0:12, not the offset in force
LmtOffset  == 720

-----------------------------------------------------------------------------
(* Clock *)

\* epoch second at which the Algiers wall clock reads h:m:s on day 0
\* (h = 24 and more: on day 1)
At(h, m, s) == h * SecPerHour + m * SecPerMin + s - UtcOffset

\* the instants at which the runs that exercise the report store handle
\* updates: the last second of day 0, local midnight, and 00:48 of day 1
StoreInstants == { At(23, 59, 59), At(24, 0, 0), At(24, 48, 0) }

\* the instants at which the runs that exercise the timetables handle updates
SchedInstants == { At(5, 0, 0), At(6, 15, 0), At(6, 29, 59), At(6, 30, 0),
                   At(7, 0, 0) }

\* wall-clock seconds since local midnight of datetime.now(ALGERIA_TZ)
LocalSecOfDay(ts) == (ts + UtcOffset) % SecPerDay
\* now_algeria.date(), as a day number
LocalDate(ts) == (ts + UtcOffset) \div SecPerDay

\* get_algerian_time().time(): <<hour, minute, second>>
TimeOfDay(ts) ==
    LET s == LocalSecOfDay(ts)
    IN  << s \div SecPerHour, (s % SecPerHour) \div SecPerMin, s % SecPerMin >>

\* alg_time.strftime(REPORT_TIME_FORMAT): "HH:MM"
strftime(ts) == << TimeOfDay(ts)[1], TimeOfDay(ts)[2] >>

\* the rank of an "HH:MM" string in the order of strings
HM(t) == t[1] * 60 + t[2]

get_current_day_range_in_algeria ==
    LET start_of_day == LocalDate(now) * SecPerDay - LmtOffset
    IN  << start_of_day, start_of_day + SecPerDay >>

-----------------------------------------------------------------------------
(* str(user_id) *)

RECURSIVE str(_)
str(n) == IF n < 10 THEN << n >> ELSE Append(str(n \div 10), n % 10)

-----------------------------------------------------------------------------
(* The report collection (pymongo) *)

\* the documents of a result list, and their _id fields
Stored(docs)    == { docs[i] : i \in 1..Len(docs) }
StoredIds(docs) == { docs[i]._id : i \in 1..Len(docs) }

\* ObjectId.is_valid(report_id)
is_valid(report_id) == report_id >= 1

\* mutant of insert_one: a document of the same station, direction and minute
\* is replaced by the new one (an upsert on that key)
insert_one_upsert(report_data) ==
    LET same(r) == /\ r.station = report_data.station
                   /\ r.direction = report_data.direction
                   /\ r.time = report_data.time
    IN  Append(SelectSeq(reports, LAMBDA r : ~same(r)),
               [ _id       |-> nextId,
                 station   |-> report_data.station,
                 direction |-> report_data.direction,
                 time      |-> report_data.time,
                 timestamp |-> report_data.timestamp,
                 user_id   |-> report_data.user_id ])

\* reports_collection.insert_one(report_data): the store assigns _id
insert_one(report_data) ==
    Append(reports, [ _id       |-> nextId,
                      station   |-> report_data.station,
                      direction |-> report_data.direction,
                      time      |-> report_data.time,
                      timestamp |-> report_data.timestamp,
                      user_id   |-> report_data.user_id ])

\* mutant of delete_one: the filter matches every document, so the first
\* document of the collection is the one removed
delete_one_first(report_id) ==
    IF Len(reports) > 0 THEN Tail(reports) ELSE reports

\* reports_collection.delete_one({"_id": ObjectId(report_id)}): the remaining
\* documents; deleted_count is the difference of the lengths
delete_one(report_id) == SelectSeq(reports, LAMBDA r : r._id # report_id)

\* mutant of save_report_to_db: the document is stored although insert_one
\* raised
save_report_to_db_stores_on_error(report_data, fails) ==
    IF reports_collection
    THEN [ ret |-> IF fails THEN 0 ELSE nextId,
           docs |-> insert_one(report_data), next |-> nextId + 1 ]
    ELSE [ ret |-> 0, docs |-> reports, next |-> nextId ]

\* save_report_to_db: str(inserted_id), or None.  fails: insert_one raises.
save_report_to_db(report_data, fails) ==
    IF reports_collection /\ ~fails
    THEN [ ret |-> nextId, docs |-> insert_one(report_data), next |-> nextId + 1 ]
    ELSE [ ret |-> 0,      docs |-> reports,                 next |-> nextId ]

\* mutant of deleted_count_positive: a delete that removed nothing counts as done
deleted_count_any(deleted_count) == deleted_count >= 0

\* the return value of delete_report_from_db once delete_one has returned
deleted_count_positive(deleted_count) == deleted_count > 0

\* delete_report_from_db: True or False.  fails: delete_one raises.
delete_report_from_db(report_id, fails) ==
    IF ~reports_collection   THEN [ ret |-> FALSE, docs |-> reports ]
    ELSE IF ~is_valid(report_id) THEN [ ret |-> FALSE, docs |-> reports ]
    ELSE IF fails            THEN [ ret |-> FALSE, docs |-> reports ]
    ELSE LET remaining == delete_one(report_id)
         IN  [ ret  |-> deleted_count_positive(Len(reports) - Len(remaining)),
               docs |-> remaining ]

\* mutant of get_reports_by_user_id: the query carries the day window too
get_reports_by_user_id_today(user_id, fails) ==
    IF reports_collection /\ ~fails
    THEN SelectSeq(reports, LAMBDA r :
             /\ r.user_id = str(user_id)
             /\ r.timestamp >= LocalDate(now) * SecPerDay - LmtOffset
             /\ r.timestamp < LocalDate(now) * SecPerDay - LmtOffset + SecPerDay)
    ELSE << >>

\* get_reports_by_user_id.  fails: find raises.
get_reports_by_user_id(user_id, fails) ==
    IF reports_collection /\ ~fails
    THEN SelectSeq(reports, LAMBDA r : r.user_id = str(user_id))
    ELSE << >>

\* mutant of InDayRange: the lower bound is exclusive ($gt)
InDayRange_after_start(r) ==
    LET range == get_current_day_range_in_algeria
    IN  r.timestamp > range[1] /\ r.timestamp < range[2]

\* the query {"timestamp": {"$gte": start_ts, "$lt": end_ts}}
InDayRange(r) ==
    LET range == get_current_day_range_in_algeria
    IN  r.timestamp >= range[1] /\ r.timestamp < range[2]

\* get_all_reports_from_db_filtered(direction=None)
get_all_reports_from_db_filtered(direction, fails) ==
    IF reports_collection /\ MONGO_AVAILABLE /\ ~fails
    THEN SelectSeq(reports, LAMBDA r :
             InDayRange(r) /\ (direction # None => r.direction = direction))
    ELSE << >>

\* get_reports_by_station_from_db_filtered(station, direction=None)
get_reports_by_station_from_db_filtered(station, direction, fails) ==
    IF reports_collection /\ MONGO_AVAILABLE /\ ~fails
    THEN SelectSeq(reports, LAMBDA r :
             r.station = station /\ InDayRange(r)
             /\ (direction # None => r.direction = direction))
    ELSE << >>

-----------------------------------------------------------------------------
(* Report views *)

\* mutant of minute_key: the seconds are kept
minute_key_with_seconds(timestamp) == timestamp

\* datetime.fromtimestamp(ts, ALGERIA_TZ).replace(second=0, microsecond=0),
\* as the instant it denotes (the zone's offset is a whole number of minutes)
minute_key(timestamp) == timestamp - (timestamp % SecPerMin)

\* the loop of group_reports_by_minute; grouped is the dict as the
\* sequence of its items [key, value] in insertion order
RECURSIVE group_loop(_, _)
group_loop(rs, grouped) ==
    IF rs = << >> THEN grouped
    ELSE LET report  == Head(rs)
             key     == << report.station, report.direction,
                           minute_key(report.timestamp) >>
             fresh   == [ key   |-> key,
                          value |-> [ station   |-> report.station,
                                      direction |-> report.direction,
                                      time_str  |-> strftime(key[3]),
                                      count     |-> 0 ] ]
             withKey == IF \E i \in 1..Len(grouped) : grouped[i].key = key
                        THEN grouped ELSE Append(grouped, fresh)
             counted == [ i \in 1..Len(withKey) |->
                            IF withKey[i].key = key
                            THEN [withKey[i] EXCEPT !.value.count = @ + 1]
                            ELSE withKey[i] ]
         IN  group_loop(Tail(rs), counted)

\* mutant of time_str_gt: the order is reversed
time_str_lt(a, b) == HM(a) < HM(b)

\* a > b on "HH:MM" strings
time_str_gt(a, b) == HM(a) > HM(b)

\* sorted(entries, key=lambda x: x['time_str'], reverse=True): a stable sort,
\* entries of equal key keep their order
RECURSIVE sorted_by_time_str_reverse(_)
sorted_by_time_str_reverse(entries) ==
    IF entries = << >> THEN << >>
    ELSE LET x    == Head(entries)
             rest == sorted_by_time_str_reverse(Tail(entries))
         IN  SelectSeq(rest, LAMBDA y : time_str_gt(y.time_str, x.time_str))
             \o << x >>
             \o SelectSeq(rest, LAMBDA y : ~time_str_gt(y.time_str, x.time_str))

\* group_reports_by_minute(reports), with the dict grouped given: the counting
\* loop, then the values sorted
group_from(rs, grouped) ==
    LET filled == group_loop(rs, grouped)
    IN  sorted_by_time_str_reverse([ i \in 1..Len(filled) |-> filled[i].value ])

\* mutant of group_reports_by_minute: the counts outlive the call, so an
\* entry starts from the count the previous call gave it
group_reports_by_minute_kept(rs) ==
    LET previous   == IF last.op = "view_station_filtered" THEN last.groups
                                                           ELSE << >>
        result     == group_from(rs, << >>)
        carried(v) == { j \in 1..Len(previous) :
                          /\ previous[j].station = v.station
                          /\ previous[j].direction = v.direction
                          /\ previous[j].time_str = v.time_str }
    IN  [ i \in 1..Len(result) |->
            IF carried(result[i]) = {} THEN result[i]
            ELSE [result[i] EXCEPT
                     !.count = @ + previous[CHOOSE j \in carried(result[i]) : TRUE].count] ]

\* group_reports_by_minute(reports): grouped = {} at every call
group_reports_by_minute(rs) == group_from(rs, << >>)

\* the loop that fills stations_with_reports: the dict as the sequence of its
\* items [station, reports] in insertion order
RECURSIVE group_by_station(_, _)
group_by_station(rs, stations_with_reports) ==
    IF rs = << >> THEN stations_with_reports
    ELSE LET report == Head(rs)
             d      == stations_with_reports
             withSt == IF \E i \in 1..Len(d) : d[i].station = report.station
                       THEN d
                       ELSE Append(d, [station |-> report.station, reports |-> << >>])
         IN  group_by_station(Tail(rs),
                 [ i \in 1..Len(withSt) |->
                     IF withSt[i].station = report.station
                     THEN [withSt[i] EXCEPT !.reports = Append(@, report)]
                     ELSE withSt[i] ])

\* mutant of get_reports: the list of the first station of the dict is taken
\* for every station
get_reports_of_first(stations_with_reports, station) ==
    stations_with_reports[1].reports

\* stations_with_reports[station]
get_reports(stations_with_reports, station) ==
    LET d == stations_with_reports
    IN  d[CHOOSE i \in 1..Len(d) : d[i].station = station].reports

\* mutant of earliest: the latest timestamp is taken
latest(rs) ==
    CHOOSE t \in { rs[i].timestamp : i \in 1..Len(rs) } :
        \A i \in 1..Len(rs) : rs[i].timestamp <= t

\* min(reports, key=lambda r: r['timestamp'])['timestamp']
earliest(rs) ==
    CHOOSE t \in { rs[i].timestamp : i \in 1..Len(rs) } :
        \A i \in 1..Len(rs) : t <= rs[i].timestamp

\* sorted(station_earliest_times.keys(), key=lambda s: station_earliest_times[s]),
\* on the items [station, earliest]: a stable sort
RECURSIVE sorted_by_earliest(_)
sorted_by_earliest(items) ==
    IF items = << >> THEN << >>
    ELSE LET x    == Head(items)
             rest == sorted_by_earliest(Tail(items))
         IN  SelectSeq(rest, LAMBDA y : y.earliest < x.earliest)
             \o << x >>
             \o SelectSeq(rest, LAMBDA y : ~(y.earliest < x.earliest))

-----------------------------------------------------------------------------
(* Timetables (module schedules): a dict is the sequence of its items in key
   order, each item [station, times] *)

\* list(d.keys())
keys(d) == [ i \in 1..Len(d) |-> d[i].station ]

\* mutant of get: an absent key falls back to the first item of the dict
get_first_when_absent(d, station) ==
    IF \E i \in 1..Len(d) : d[i].station = station
    THEN d[CHOOSE i \in 1..Len(d) : d[i].station = station].times
    ELSE IF Len(d) > 0 THEN d[1].times ELSE << >>

\* d.get(station, [])
get(d, station) ==
    IF \E i \in 1..Len(d) : d[i].station = station
    THEN d[CHOOSE i \in 1..Len(d) : d[i].station = station].times
    ELSE << >>

\* no "HH:MM" string: the None of next(..., None)
NoTrain == << >>

\* str_to_time(s): datetime.strptime(s, "%H:%M").time()
str_to_time(s) == << s[1], s[2], 0 >>

\* mutant of time_gt: the comparison is >= instead of >
time_ge(a, b) ==
    \/ a[1] > b[1]
    \/ a[1] = b[1] /\ a[2] > b[2]
    \/ a[1] = b[1] /\ a[2] = b[2] /\ a[3] >= b[3]

\* a > b on datetime.time objects: (hour, minute, second) in lexicographic order
time_gt(a, b) ==
    \/ a[1] > b[1]
    \/ a[1] = b[1] /\ a[2] > b[2]
    \/ a[1] = b[1] /\ a[2] = b[2] /\ a[3] > b[3]

\* next((t for t in schedule if str_to_time(t) > now), None)
RECURSIVE next_train(_, _)
next_train(schedule, now_time) ==
    IF schedule = << >> THEN NoTrain
    ELSE IF time_gt(str_to_time(Head(schedule)), now_time) THEN Head(schedule)
    ELSE next_train(Tail(schedule), now_time)

\* mutant of future_trains: the filter is left out
future_trains_unfiltered(schedule, now_time) == schedule

\* [t for t in schedule if str_to_time(t) > now]
future_trains(schedule, now_time) ==
    SelectSeq(schedule, LAMBDA t : time_gt(str_to_time(t), now_time))

\* the if direction == DIRECTION_GO / else of station_ and show_all_trains
schedule_of(station, direction) ==
    IF direction = DIRECTION_GO THEN get(go_schedule, station)
                                ELSE get(return_schedule, station)

\* the stations a report_station_ button can carry
CatalogStations ==
    { go_schedule[i].station : i \in 1..Len(go_schedule) } \cup
    { return_schedule[i].station : i \in 1..Len(return_schedule) }

\* mutant of append_unseen: the `if station not in seen` test is left out
append_all(stations, all_stations) == all_stations \o stations

\* for station in stations: if station not in seen: all_stations.append(station);
\* seen.add(station).  seen is the set of the elements of all_stations.
RECURSIVE append_unseen(_, _)
append_unseen(stations, all_stations) ==
    IF stations = << >> THEN all_stations
    ELSE LET station == Head(stations)
             seen    == { all_stations[i] : i \in 1..Len(all_stations) }
         IN  append_unseen(Tail(stations),
                           IF station \notin seen
                           THEN Append(all_stations, station)
                           ELSE all_stations)

get_all_stations_ordered ==
    LET go_stations     == keys(go_schedule)
        return_stations == keys(return_schedule)
    IN  append_unseen(return_stations, append_unseen(go_stations, << >>))

\* the timetables of the runs that exercise the report store
LineGo     == << [station |-> "Agha", times |-> << <<6, 0>>, <<6, 30>> >>] >>
LineReturn == << [station |-> "Agha", times |-> << <<7, 0>> >>] >>

-----------------------------------------------------------------------------
(* Front end *)

\* the record of a step that handles no update
Quiet(what) == [ op |-> what, user |-> 0, arg |-> None, raised |-> FALSE,
                 msgs |-> << >> ]

\* mutant of context_user_data: one dict for all users (the first user's)
context_user_data_of_first(u) == user_data[1]

\* context.user_data: the dict that the framework keeps for the user of the
\* update
context_user_data(u) == user_data[u]

\* start(): the comma after the fourth keyboard row is missing (app.py:271),
\* so building the keyboard subscripts one row with the next, which raises
\* TypeError before any message is sent
start == "raise"

\* mutant of except_clause: the exception is raised again
except_reraises(body_raised) == body_raised

\* handle_callback's `except Exception` clause: whether an exception leaves
\* handle_callback when its body raised.  The clause logs, tries to show the
\* generic error text inside its own try/except, and returns.
except_clause(body_raised) == FALSE

\* the messages a handler leaves when it ends with `await start(...)`: the
\* exception reaches handle_callback's except clause, which shows the
\* generic error text
ThenStart(msgs) ==
    IF start = "raise" THEN Append(msgs, "generic_error")
                       ELSE Append(msgs, "main_menu")

\* /start: the CommandHandler calls start() directly, outside
\* handle_callback, so what start() raises goes to the framework and the user
\* gets no reply
start_command(u) ==
    /\ last' = [ op |-> "start_command", user |-> u, arg |-> None,
                 raised |-> start = "raise",
                 escaped |-> start = "raise",
                 msgs |-> IF start = "raise" THEN << >> ELSE << "main_menu" >> ]
    /\ UNCHANGED <<storeVars, schedVars, voteVars, user_data, now>>

\* back_to_start
back_to_start(u) ==
    /\ last' = [ op |-> "back_to_start", user |-> u, arg |-> None,
                 raised |-> FALSE,
                 escaped |-> except_clause(start = "raise"),
                 msgs |-> ThenStart(<< >>) ]
    /\ UNCHANGED <<storeVars, schedVars, voteVars, user_data, now>>

\* report_train
report_train(u) ==
    /\ last' = [ op |-> "report_train", user |-> u, arg |-> None,
                 raised |-> FALSE,
                 escaped |-> except_clause(FALSE),
                 msgs |-> << "report_menu" >> ]
    /\ UNCHANGED <<storeVars, schedVars, voteVars, user_data, now>>

\* view_reports
view_reports(u) ==
    /\ last' = [ op |-> "view_reports", user |-> u, arg |-> None,
                 raised |-> FALSE,
                 escaped |-> except_clause(FALSE),
                 msgs |-> << IF ~MONGO_AVAILABLE THEN "db_unavailable"
                                                ELSE "choose_view_direction" >> ]
    /\ UNCHANGED <<storeVars, schedVars, voteVars, user_data, now>>

\* callback data that no branch of handle_callback matches
unknown_command(u) ==
    /\ last' = [ op |-> "unknown", user |-> u, arg |-> None,
                 raised |-> FALSE,
                 escaped |-> except_clause(FALSE),
                 msgs |-> << "unknown_command" >> ]
    /\ UNCHANGED <<storeVars, schedVars, voteVars, user_data, now>>

\* InlineKeyboardButton(station, callback_data=f"report_station_{station}")
station_button(station) ==
    [ text |-> station, callback_data |-> << "report_station_", station >> ]

\* mutant of station_rows: only full rows are built, range(0, len - 1, 2)
station_rows_full_only(stations) ==
    [ k \in 1..(Len(stations) \div 2) |->
        << station_button(stations[2 * k - 1]), station_button(stations[2 * k]) >> ]

\* the rows built by `for i in range(0, len(stations), 2)`
station_rows(stations) ==
    [ k \in 1..((Len(stations) + 1) \div 2) |->
        IF 2 * k <= Len(stations)
        THEN << station_button(stations[2 * k - 1]), station_button(stations[2 * k]) >>
        ELSE << station_button(stations[2 * k - 1]) >> ]

\* report_new_arrival: one report_station_ button per catalog station, two
\* per row, and a last row with the back button
report_new_arrival(u) ==
    /\ last' = [ op |-> "report_new_arrival", user |-> u, arg |-> None,
                 raised |-> FALSE,
                 escaped |-> except_clause(FALSE), stations |-> get_all_stations_ordered,
                 station_buttons |->
                     Append(station_rows(get_all_stations_ordered),
                            << [ text |-> "back",
                                 callback_data |-> << "report_train" >> ] >>),
                 msgs |-> << "choose_report_station" >> ]
    /\ UNCHANGED <<storeVars, schedVars, voteVars, user_data, now>>

\* report_station_<station>
report_station(u, station) ==
    /\ user_data' = [user_data EXCEPT ![u].report_station = station]
    /\ last' = [ op |-> "report_station", user |-> u, arg |-> station,
                 raised |-> FALSE,
                 escaped |-> except_clause(FALSE), msgs |-> << "choose_direction" >> ]
    /\ UNCHANGED <<storeVars, schedVars, voteVars, now>>

\* report_direction_go / report_direction_return
report_direction(u, direction, fails) ==
    LET station == context_user_data(u).report_station
        report  == [ station   |-> station,
                     direction |-> direction,
                     time      |-> strftime(now),
                     timestamp |-> now,
                     user_id   |-> str(u) ]
        saved   == save_report_to_db(report, fails)
    IN  /\ saved.ret # 0 => nextId <= MaxReports
        /\ reports' = saved.docs
        /\ nextId'  = saved.next
        /\ last' = [ op |-> "report_direction", user |-> u, arg |-> direction,
                     raised |-> fails,
                     escaped |-> except_clause(start = "raise"), ret |-> saved.ret,
                     msgs |-> ThenStart(<< IF saved.ret # 0 THEN "report_saved"
                                                            ELSE "save_failed" >>) ]
        /\ UNCHANGED <<reports_collection, MONGO_AVAILABLE, deleted,
                       schedVars, voteVars, user_data, now>>

\* history: the user_id field of the stored report with this _id, or None
OwnerOf(report_id) ==
    IF \E i \in 1..Len(reports) : reports[i]._id = report_id
    THEN reports[CHOOSE i \in 1..Len(reports) : reports[i]._id = report_id].user_id
    ELSE None

\* confirm_delete_my_report_<report_id>.  The handler touches the shared store
\* in the single delete_one call, so concurrent handlers interleave as whole
\* steps in the order in which the store serves their calls.
confirm_delete_my_report(u, report_id, fails) ==
    LET done == delete_report_from_db(report_id, fails)
    IN  /\ reports' = done.docs
        /\ deleted' = IF done.ret /\ report_id \in DOMAIN deleted
                      THEN [deleted EXCEPT ![report_id] = @ + 1]
                      ELSE deleted
        /\ last' = [ op |-> "confirm_delete", user |-> u, arg |-> report_id,
                     raised |-> fails,
                     escaped |-> except_clause(start = "raise"), ret |-> done.ret, owner |-> OwnerOf(report_id),
                     msgs |-> ThenStart(<< IF done.ret THEN "deleted"
                                                       ELSE "delete_failed" >>) ]
        /\ UNCHANGED <<reports_collection, MONGO_AVAILABLE, nextId,
                       schedVars, voteVars, user_data, now>>

\* direction_go / direction_return
direction_(u, direction) ==
    /\ user_data' = [user_data EXCEPT ![u].direction = direction]
    /\ last' = [ op |-> "direction", user |-> u, arg |-> direction,
                 raised |-> FALSE,
                 escaped |-> except_clause(FALSE), msgs |-> << "choose_station" >> ]
    /\ UNCHANGED <<storeVars, schedVars, voteVars, now>>

\* station_<station>
station_(u, station) ==
    LET direction == context_user_data(u).direction
        schedule  == schedule_of(station, direction)
        found     == next_train(schedule, TimeOfDay(now))
    IN  /\ user_data' = [user_data EXCEPT ![u].last_station = station]
        /\ last' = [ op |-> "station", user |-> u, arg |-> station,
                     raised |-> FALSE,
                     escaped |-> except_clause(FALSE), next_train |-> found,
                     msgs |-> << IF found # NoTrain THEN "next_train"
                                                    ELSE "no_trains_left" >> ]
        /\ UNCHANGED <<storeVars, schedVars, voteVars, now>>

\* show_all_trains
show_all_trains(u) ==
    LET station   == context_user_data(u).last_station
        direction == context_user_data(u).direction
        schedule  == schedule_of(station, direction)
        found     == future_trains(schedule, TimeOfDay(now))
    IN  /\ last' = [ op |-> "show_all_trains", user |-> u, arg |-> None,
                     raised |-> FALSE,
                     escaped |-> except_clause(FALSE), future_trains |-> found,
                     msgs |-> << IF found # << >> THEN "all_trains"
                                                  ELSE "no_trains_left" >> ]
        /\ UNCHANGED <<storeVars, schedVars, voteVars, user_data, now>>

\* sorted(user_reports, key=lambda x: x["timestamp"], reverse=True): a stable
\* sort
RECURSIVE sorted_by_timestamp_reverse(_)
sorted_by_timestamp_reverse(rs) ==
    IF rs = << >> THEN << >>
    ELSE LET x    == Head(rs)
             rest == sorted_by_timestamp_reverse(Tail(rs))
         IN  SelectSeq(rest, LAMBDA y : y.timestamp > x.timestamp)
             \o << x >>
             \o SelectSeq(rest, LAMBDA y : ~(y.timestamp > x.timestamp))

\* mutant of Slice: the list is not cut
Slice_all(seq, n) == seq

\* seq[:n]
Slice(seq, n) == SubSeq(seq, 1, IF Len(seq) < n THEN Len(seq) ELSE n)

\* delete_my_reports: one confirm_delete_my_report_ button per report of the
\* user, newest first.  fails: find raises.
delete_my_reports(u, fails) ==
    LET user_reports   == get_reports_by_user_id(u, fails)
        sorted_reports == Slice(sorted_by_timestamp_reverse(user_reports),
                                DeleteMenuLimit)
    IN  /\ last' = [ op |-> "delete_my_reports", user |-> u, arg |-> None,
                     raised |-> fails,
                     escaped |-> except_clause(FALSE),
                     lines |-> [ i \in 1..Len(sorted_reports) |->
                                   [ n         |-> i,
                                     station   |-> sorted_reports[i].station,
                                     direction |-> sorted_reports[i].direction,
                                     time_str  |-> sorted_reports[i].time ] ],
                     buttons |-> [ i \in 1..Len(sorted_reports) |->
                                     sorted_reports[i]._id ],
                     msgs |-> << IF user_reports = << >> THEN "no_own_reports"
                                                         ELSE "own_reports" >> ]
        /\ UNCHANGED <<storeVars, schedVars, voteVars, user_data, now>>

\* view_reports_direction_go / view_reports_direction_return.  fails: find
\* raises.
view_reports_direction_(u, chosen_direction, fails) ==
    LET reports_today_direction ==
            get_all_reports_from_db_filtered(chosen_direction, fails)
        stations_with_reports ==
            group_by_station(reports_today_direction, << >>)
        station_earliest_times ==
            [ i \in 1..Len(stations_with_reports) |->
                [ station  |-> stations_with_reports[i].station,
                  earliest |-> earliest(stations_with_reports[i].reports) ] ]
        sorted_stations_by_time == sorted_by_earliest(station_earliest_times)
    IN  /\ user_data' = [user_data EXCEPT ![u].view_direction = chosen_direction]
        /\ last' = [ op |-> "view_reports_direction", user |-> u,
                     arg |-> chosen_direction, raised |-> fails,
                     escaped |-> except_clause(FALSE),
                     raw |-> reports_today_direction,
                     stations |-> [ i \in 1..Len(sorted_stations_by_time) |->
                                      sorted_stations_by_time[i].station ],
                     counts |-> [ i \in 1..Len(sorted_stations_by_time) |->
                                    Len(get_reports(stations_with_reports,
                                            sorted_stations_by_time[i].station)) ],
                     msgs |-> << IF reports_today_direction = << >>
                                 THEN "no_reports_today"
                                 ELSE "choose_view_station" >> ]
        /\ UNCHANGED <<storeVars, schedVars, voteVars, now>>

\* view_station_filtered_<station>.  fails: find raises.
view_station_filtered_(u, selected_station, fails) ==
    LET chosen_direction == context_user_data(u).view_direction
        asked == chosen_direction # None /\ MONGO_AVAILABLE
        station_reports_raw ==
            IF asked
            THEN get_reports_by_station_from_db_filtered(
                     selected_station, chosen_direction, fails)
            ELSE << >>
        grouped_reports_list ==
            IF station_reports_raw = << >> THEN << >>
            ELSE group_reports_by_minute(station_reports_raw)
    IN  /\ last' = [ op |-> "view_station_filtered", user |-> u,
                     arg |-> selected_station, raised |-> asked /\ fails,
                     escaped |-> except_clause(FALSE),
                     queried |-> asked,
                     raw |-> station_reports_raw,
                     groups |-> grouped_reports_list,
                     shown |-> Slice(grouped_reports_list, ViewLimit),
                     msgs |-> << IF chosen_direction = None THEN "error_restart"
                                 ELSE IF ~MONGO_AVAILABLE THEN "db_unavailable"
                                 ELSE IF station_reports_raw = << >>
                                 THEN "no_reports_station"
                                 ELSE "station_reports" >> ]
        /\ UNCHANGED <<storeVars, schedVars, voteVars, user_data, now>>

\* the wall clock advances to a later instant
Tick ==
    /\ \E t \in StoreInstants : t > now
    /\ now' = CHOOSE t \in StoreInstants :
                  t > now /\ \A t2 \in StoreInstants : t2 > now => t <= t2
    /\ last' = Quiet("tick")
    /\ UNCHANGED <<storeVars, schedVars, voteVars, user_data>>

-----------------------------------------------------------------------------
(* Initial states *)

NoSession == [ report_station |-> None, view_direction |-> None,
               direction |-> None, last_station |-> None ]

NoVoteOp == [ pc |-> "idle", report |-> 0, vote |-> None, delta |-> <<0, 0>>,
              seen |-> <<0, 0>> ]

\* init_mongodb (app.py:32-91): it returns before the collection is assigned,
\* or raises between the assignment and line 69, or completes
InitMongo ==
    /\ reports_collection \in BOOLEAN
    /\ MONGO_AVAILABLE \in BOOLEAN
    /\ MONGO_AVAILABLE => reports_collection

InitCommon ==
    /\ user_data = [u \in Users |-> NoSession]
    /\ last = Quiet("init")
    /\ deleted = [i \in Ids |-> 0]
    /\ reports = << >>
    /\ nextId = 1

InitNoVotes ==
    /\ upvotes = [i \in Ids |-> 0]
    /\ downvotes = [i \in Ids |-> 0]
    /\ userVotes = [i \in Ids |-> [u \in Users |-> None]]
    /\ voteOp = [u \in Users |-> NoVoteOp]

Init ==
    /\ now = At(23, 59, 59)
    /\ go_schedule = LineGo
    /\ return_schedule = LineReturn
    /\ InitMongo
    /\ InitCommon
    /\ InitNoVotes

Next ==
    \/ \E u \in Users, s \in CatalogStations : report_station(u, s)
    \/ \E u \in Users, d \in Directions, fails \in BOOLEAN :
           report_direction(u, d, fails)
    \/ \E u \in Users, rid \in ReqIds, fails \in BOOLEAN :
           confirm_delete_my_report(u, rid, fails)
    \/ Tick

Spec == Init /\ [][Next]_vars

\* the callbacks of Spec together with the menus, unknown callback data, and
\* the callbacks that read session keys which no step of these runs sets
\* (view_station_filtered_ without view_direction, show_all_trains without
\* direction and last_station)
NextCallback ==
    \/ Next
    \/ \E u \in Users : start_command(u)
    \/ \E u \in Users : back_to_start(u)
    \/ \E u \in Users : report_train(u)
    \/ \E u \in Users : report_new_arrival(u)
    \/ \E u \in Users : view_reports(u)
    \/ \E u \in Users : unknown_command(u)
    \/ \E u \in Users, fails \in BOOLEAN : delete_my_reports(u, fails)
    \/ \E u \in Users, st \in CatalogStations, fails \in BOOLEAN :
           view_station_filtered_(u, st, fails)
    \/ \E u \in Users : show_all_trains(u)

SpecCallback == Init /\ [][NextCallback]_vars

\* the reporting flow and the viewing flow over one store, with the store
\* connected at startup
InitFlow ==
    /\ now = At(23, 59, 59)
    /\ go_schedule = LineGo
    /\ return_schedule = LineReturn
    /\ reports_collection = TRUE
    /\ MONGO_AVAILABLE = TRUE
    /\ InitCommon
    /\ InitNoVotes

NextFlow ==
    \/ \E u \in Users, s \in CatalogStations : report_station(u, s)
    \/ \E u \in Users, d \in Directions, fails \in BOOLEAN :
           report_direction(u, d, fails)
    \/ \E u \in Users, d \in Directions, fails \in BOOLEAN :
           view_reports_direction_(u, d, fails)
    \/ \E u \in Users, st \in CatalogStations, fails \in BOOLEAN :
           view_station_filtered_(u, st, fails)
    \/ Tick

SpecFlow == InitFlow /\ [][NextFlow]_vars

-----------------------------------------------------------------------------
(* Owner-gated deletion: C1 - C4, checked under Spec *)

\* the step is a confirm_delete_my_report_ callback for the stored report r
IsDeleteOf(r) == last'.op = "confirm_delete" /\ last'.arg = r._id

\* C1: a delete request for a stored report r by a user whose str(id) differs
\* from r.user_id returns failure and leaves r in the store, every field
\* unchanged.
C1_NonCreatorDeleteRejected ==
    [][ \A r \in Stored(reports) :
            (IsDeleteOf(r) /\ str(last'.user) # r.user_id)
                => (last'.ret = FALSE /\ r \in Stored(reports')) ]_vars

\* C2: when the creator of a stored report requests its deletion and the store
\* call does not raise, the delete returns True and the report is removed; an
\* id that left the store never comes back, so no later lookup by id, by
\* creator or by station/direction/day returns it.
C2_CreatorDeleteRemoves ==
    /\ [][ \A r \in Stored(reports) :
               (IsDeleteOf(r) /\ str(last'.user) = r.user_id /\ ~last'.raised)
                   => (last'.ret = TRUE /\ r._id \notin StoredIds(reports')) ]_vars
    /\ [][ \A id \in Ids :
               (id < nextId /\ id \notin StoredIds(reports))
                   => id \notin StoredIds(reports') ]_vars
    /\ [](\A id \in Ids : deleted[id] > 0 =>
            /\ id \notin StoredIds(reports)
            /\ \A u \in Users :
                   id \notin StoredIds(get_reports_by_user_id(u, FALSE))
            /\ \A st \in CatalogStations \cup {None}, d \in Directions \cup {None} :
                   /\ id \notin StoredIds(
                          get_reports_by_station_from_db_filtered(st, d, FALSE))
                   /\ id \notin StoredIds(get_all_reports_from_db_filtered(d, FALSE)))

\* C2 witness: the creator's delete of a stored report has just returned True
\* while another report is still stored.
C2_Witness ==
    /\ last.op = "confirm_delete" /\ last.ret = TRUE
    /\ last.owner = str(last.user)
    /\ deleted[last.arg] = 1
    /\ Len(reports) >= 1

\* C3: deleting an id that is not in the store (never created, already deleted,
\* or no ObjectId at all) returns False and leaves the stored reports unchanged.
C3_DeleteOfAbsentIdFails ==
    [][ (last'.op = "confirm_delete" /\ last'.arg \notin StoredIds(reports))
            => (last'.ret = FALSE /\ reports' = reports) ]_vars

\* C3 witness: a second delete of an id whose first delete succeeded has just
\* returned False, with another report stored.
C3_Witness ==
    /\ last.op = "confirm_delete" /\ last.ret = FALSE /\ ~last.raised
    /\ last.arg \in Ids /\ deleted[last.arg] = 1
    /\ Len(reports) >= 1

\* C4: of the delete requests that target one report, issued in any order by
\* its creator and by other users, none by a non-creator returns True and at
\* most one returns True.
C4_OnlyCreatorOnce ==
    /\ (last.op = "confirm_delete" /\ last.ret = TRUE) => last.owner = str(last.user)
    /\ \A id \in Ids : deleted[id] <= 1

-----------------------------------------------------------------------------
(* Day window, catalog membership, degraded mode: C17, C18, C20, checked
   under Spec *)

\* the instant at which the Algiers wall clock reads 00:00:00 on the local
\* date of ts
LocalMidnight(ts) == LocalDate(ts) * SecPerDay - UtcOffset

\* C17: at every instant the day window starts at the instant at which the
\* local wall clock reads 00:00:00 on the current local date and ends 24
\* hours later; so the today filter keeps exactly the stored reports created
\* on the current local date: it drops a report created one second before
\* local midnight and keeps a report created exactly at local midnight.
C17_WindowIsLocalDay ==
    LET range == get_current_day_range_in_algeria
    IN  /\ range[1] = LocalMidnight(now)
        /\ range[2] = range[1] + SecPerDay
        /\ \A r \in Stored(reports) :
               /\ r.timestamp = LocalMidnight(now) - 1 => ~InDayRange(r)
               /\ r.timestamp = LocalMidnight(now) => InDayRange(r)

\* C18: every stored report has a station that is a key of the go or of the
\* return timetable, and a report_direction_ callback of a session whose
\* report_station is missing or is no such key saves nothing.
C18_StoredStationsInCatalog ==
    /\ \A r \in Stored(reports) : r.station \in CatalogStations
    /\ (last.op = "report_direction"
            /\ user_data[last.user].report_station \notin CatalogStations)
          => last.ret = 0

\* C20: while the availability flag is false, the day-scoped queries and the
\* query by creator return the empty list, a submission returns no id, a
\* delete returns False, and neither changes the stored reports.
C20_DegradedMode ==
    /\ [](~MONGO_AVAILABLE =>
            /\ \A u \in Users : get_reports_by_user_id(u, FALSE) = << >>
            /\ \A d \in Directions \cup {None} :
                   /\ get_all_reports_from_db_filtered(d, FALSE) = << >>
                   /\ \A st \in CatalogStations :
                          get_reports_by_station_from_db_filtered(st, d, FALSE) = << >>)
    /\ [][ (~MONGO_AVAILABLE /\ last'.op = "report_direction")
              => (last'.ret = 0 /\ reports' = reports) ]_vars
    /\ [][ (~MONGO_AVAILABLE /\ last'.op = "confirm_delete")
              => (last'.ret = FALSE /\ reports' = reports) ]_vars

-----------------------------------------------------------------------------
(* The availability flag and the collection handle: C32, checked under Spec *)

\* the flag is true only if the collection handle is set
FlagImpliesHandle == MONGO_AVAILABLE => reports_collection

\* no step of a handler assigns the flag or the handle
AssignedAtStartupOnly ==
    /\ MONGO_AVAILABLE' = MONGO_AVAILABLE
    /\ reports_collection' = reports_collection

\* with the flag false, a step leaves the stored reports as they are
NoWriteWhenUnavailable == ~MONGO_AVAILABLE => reports' = reports

\* C32: in every reachable state the flag is true only if the collection
\* handle is set; no handler step changes the flag or the handle; and in a
\* state where the flag is false no insert and no delete of a handler changes
\* the stored reports.
C32_FlagAndHandleConsistent ==
    /\ []FlagImpliesHandle
    /\ [][AssignedAtStartupOnly]_vars
    /\ [][NoWriteWhenUnavailable]_vars

-----------------------------------------------------------------------------
(* Day-scoped queries: C23, checked under SpecFlow *)

\* the stored reports that a day-scoped query for these arguments is to
\* return; by_station says whether the query carries a station
InWindow(by_station, station, direction) ==
    { r \in Stored(reports) :
        /\ by_station => r.station = station
        /\ direction # None => r.direction = direction
        /\ get_current_day_range_in_algeria[1] <= r.timestamp
        /\ r.timestamp < get_current_day_range_in_algeria[2] }

\* a result list holds exactly the documents of a set, each once
ExactlyOnce(result, docs) ==
    Stored(result) = docs /\ Len(result) = Cardinality(docs)

\* C23: get_reports_by_station_from_db_filtered(station, direction) returns
\* exactly the stored reports of that station, of that direction when one is
\* given, whose timestamp is in [start, end) of the current day window, and
\* get_all_reports_from_db_filtered(direction) the same without the station
\* condition; every returned report is of the current local day; the views
\* that ran the queries received these lists.
C23_DayQueriesExact ==
    /\ \A d \in Directions \cup {None} :
          /\ ExactlyOnce(get_all_reports_from_db_filtered(d, FALSE),
                         InWindow(FALSE, None, d))
          /\ \A r \in Stored(get_all_reports_from_db_filtered(d, FALSE)) :
                 LocalDate(r.timestamp) = LocalDate(now)
          /\ \A st \in CatalogStations \cup {None} :
                 ExactlyOnce(get_reports_by_station_from_db_filtered(st, d, FALSE),
                             InWindow(TRUE, st, d))
    /\ (last.op = "view_reports_direction" /\ ~last.raised) =>
           ExactlyOnce(last.raw, InWindow(FALSE, None, last.arg))
    /\ (last.op = "view_station_filtered" /\ ~last.raised
          /\ user_data[last.user].view_direction # None) =>
           ExactlyOnce(last.raw,
               InWindow(TRUE, last.arg, user_data[last.user].view_direction))

\* C23 witness: a station view returned a report created at the first instant
\* of the window and left out a report of the same station and direction of
\* the day before.
C23_Witness ==
    /\ last.op = "view_station_filtered"
    /\ \E r \in Stored(last.raw), old \in Stored(reports) \ Stored(last.raw) :
          /\ r.timestamp = get_current_day_range_in_algeria[1]
          /\ old.station = r.station
          /\ old.direction = r.direction
          /\ LocalDate(old.timestamp) < LocalDate(now)

-----------------------------------------------------------------------------
(* Report submission: C24, checked under Spec *)

\* hour and minute of the local wall clock at an instant
HourMinute(ts) ==
    << ((ts + UtcOffset) % SecPerDay) \div SecPerHour,
       (((ts + UtcOffset) % SecPerDay) % SecPerHour) \div SecPerMin >>

\* C24: a report_direction_go / report_direction_return callback that
\* succeeds appends exactly one report and leaves the stored ones as they
\* were; the new report has an unused id, the station held in the clicking
\* user's session, the direction of the callback, str(user_id) of the
\* clicking user, the clock's instant as timestamp and its hour:minute as
\* time; a failed save leaves the store unchanged.  The station held in a
\* user's session is written by that user's own report_station_ callback
\* only.
C24_SubmissionAddsOne ==
    [][ /\ last'.op = "report_direction" =>
             IF last'.ret # 0
             THEN /\ Len(reports') = Len(reports) + 1
                  /\ SubSeq(reports', 1, Len(reports)) = reports
                  /\ LET new == reports'[Len(reports')]
                     IN  /\ new._id = last'.ret
                         /\ new._id \notin StoredIds(reports)
                         /\ new.station = user_data[last'.user].report_station
                         /\ new.direction = last'.arg
                         /\ new.user_id = str(last'.user)
                         /\ new.timestamp = now
                         /\ new.time = HourMinute(new.timestamp)
             ELSE reports' = reports
        /\ \A u \in Users :
             user_data'[u].report_station # user_data[u].report_station =>
                 /\ last'.op = "report_station"
                 /\ last'.user = u
                 /\ user_data'[u].report_station = last'.arg ]_vars

\* C24 witness: the second user's submission was stored after the first
\* user's report, with the station the second user selected.
C24_Witness ==
    /\ last.op = "report_direction"
    /\ last.ret # 0
    /\ Len(reports) = 2
    /\ reports[2]._id = last.ret
    /\ reports[2].user_id = str(last.user)
    /\ reports[1].user_id # reports[2].user_id
    /\ reports[2].station = "Agha"
    /\ user_data[last.user].report_station = "Agha"

-----------------------------------------------------------------------------
(* Callback handling: C22, C28, checked under SpecCallback *)

\* the steps that are a call of handle_callback
IsCallback == last.op \notin { "init", "tick", "start_command" }

EndsWithStart ==
    last.op \in { "start_command", "back_to_start", "report_direction",
                  "confirm_delete" }

\* C28: the /start command, the back_to_start callback, every report
\* submission and every delete confirmation end with the main menu as the
\* last message shown, without the generic error message and without an
\* exception leaving the handler.
C28_MainMenuReachable ==
    EndsWithStart =>
        /\ last.msgs # << >>
        /\ last.msgs[Len(last.msgs)] = "main_menu"
        /\ \A i \in 1..Len(last.msgs) : last.msgs[i] # "generic_error"
        /\ ~last.escaped

-----------------------------------------------------------------------------
(* Timetable lookups: C9 - C11, checked under SpecSched *)

\* the "HH:MM" strings of the timetables
TimePool == { <<6, 0>>, <<6, 30>>, <<7, 0>> }

\* the timetables of a station: strictly ascending lists of at most MaxTrains
\* entries
Timetables ==
    { tt \in UNION { [1..n -> TimePool] : n \in 0..MaxTrains } :
          \A i \in 1..Len(tt), j \in 1..Len(tt) : i < j => HM(tt[i]) < HM(tt[j]) }

SchedStations == { "Agha", "Blida" }

InitSched ==
    /\ now \in SchedInstants
    /\ \E tt \in Timetables :
           /\ go_schedule = << [station |-> "Agha", times |-> tt] >>
           /\ return_schedule = << [station |-> "Blida", times |-> tt] >>
    /\ reports_collection = TRUE
    /\ MONGO_AVAILABLE = TRUE
    /\ InitCommon
    /\ InitNoVotes

NextSched ==
    \/ \E u \in Users, d \in Directions : direction_(u, d)
    \/ \E u \in Users, st \in SchedStations : station_(u, st)
    \/ \E u \in Users : show_all_trains(u)

SpecSched == InitSched /\ [][NextSched]_vars

\* the timetable entry i of tt is later than the reference time, comparing
\* hour:minute only
After(tt, i) == HM(tt[i]) > LocalSecOfDay(now) \div SecPerMin

\* C9: with a direction chosen, the next-departure lookup returns the first
\* entry of the station's timetable for that direction whose hour:minute is
\* strictly greater than the reference time, none when there is no such entry,
\* and never an entry equal to the reference time.
C9_NextDeparture ==
    (last.op = "station" /\ user_data[last.user].direction \in Directions) =>
        LET dict == IF user_data[last.user].direction = DIRECTION_GO
                    THEN go_schedule ELSE return_schedule
            tt   == get(dict, last.arg)
        IN  /\ IF \E i \in 1..Len(tt) : After(tt, i)
               THEN \E i \in 1..Len(tt) :
                        /\ After(tt, i)
                        /\ \A j \in 1..(i - 1) : ~After(tt, j)
                        /\ last.next_train = tt[i]
               ELSE last.next_train = NoTrain
            /\ last.next_train # strftime(now)

\* C9 witness: a lookup has skipped an entry equal to the reference time and
\* returned the entry after it.
C9_Witness ==
    /\ last.op = "station" /\ user_data[last.user].direction = DIRECTION_GO
    /\ last.next_train # NoTrain
    /\ \E i \in 1..Len(get(go_schedule, last.arg)) :
           get(go_schedule, last.arg)[i] = strftime(now)

\* C10: with a direction chosen, the all-departures lookup returns exactly the
\* timetable entries strictly greater than the reference time in timetable
\* order; its first element is the next-departure result for the same inputs
\* and it is empty exactly when next-departure returns none.
C10_AllDepartures ==
    (last.op = "show_all_trains" /\ user_data[last.user].direction \in Directions) =>
        LET dict  == IF user_data[last.user].direction = DIRECTION_GO
                     THEN go_schedule ELSE return_schedule
            tt    == get(dict, user_data[last.user].last_station)
            later == { i \in 1..Len(tt) : After(tt, i) }
            out   == last.future_trains
            nth(k) == CHOOSE i \in later :
                          Cardinality({ j \in later : j <= i }) = k
            next  == next_train(tt, TimeOfDay(now))
        IN  /\ Len(out) = Cardinality(later)
            /\ \A k \in 1..Len(out) : out[k] = tt[nth(k)]
            /\ out # << >> => out[1] = next
            /\ out = << >> <=> next = NoTrain

\* C10 witness: the lookup has returned two entries and left an earlier one out.
C10_Witness ==
    /\ last.op = "show_all_trains" /\ user_data[last.user].direction = DIRECTION_RETURN
    /\ Len(last.future_trains) >= 2
    /\ Len(last.future_trains) < Len(get(return_schedule, user_data[last.user].last_station))

\* the dict the lookups read for a session direction: go_schedule for
\* DIRECTION_GO, return_schedule for DIRECTION_RETURN
TimetableOf(direction) ==
    IF direction = DIRECTION_GO THEN go_schedule ELSE return_schedule

\* the station is no key of the timetable the lookup of this session reads:
\* of the chosen direction's timetable, or of either timetable when the
\* session holds no direction
Absent(station, direction) ==
    IF direction \in Directions
    THEN \A i \in 1..Len(TimetableOf(direction)) :
             TimetableOf(direction)[i].station # station
    ELSE station \notin CatalogStations

\* C11: for a station that is no key of the chosen direction's timetable
\* (the session's last_station may be missing altogether), the next-departure
\* lookup yields none, the all-departures lookup yields the empty sequence,
\* the user is told that no trains are left, and the handler does not raise.
C11_LookupsTotal ==
    /\ (last.op = "station"
            /\ Absent(last.arg, user_data[last.user].direction))
          => /\ last.next_train = NoTrain
             /\ ~last.raised
             /\ last.msgs = << "no_trains_left" >>
    /\ (last.op = "show_all_trains"
            /\ Absent(user_data[last.user].last_station,
                      user_data[last.user].direction))
          => /\ last.future_trains = << >>
             /\ ~last.raised
             /\ last.msgs = << "no_trains_left" >>

\* C11 witness: all departures were asked for in a session that chose the go
\* direction and never selected a station, while the go timetable holds a
\* departure later than the reference time.
C11_Witness ==
    /\ last.op = "show_all_trains"
    /\ user_data[last.user].direction = DIRECTION_GO
    /\ user_data[last.user].last_station = None
    /\ \E i \in 1..Len(go_schedule[1].times) : After(go_schedule[1].times, i)
    /\ last.future_trains = << >>

-----------------------------------------------------------------------------
(* Station catalog and the report menu: C12, C25, checked under SpecCatalog *)

StationPool == { "Agha", "Blida", "Boufarik", "El Affroun" }

\* the key lists of a timetable: stations without repetition, at most
\* MaxStations of them
KeyLists ==
    { ks \in UNION { [1..n -> StationPool] : n \in 0..MaxStations } :
          \A i \in 1..Len(ks), j \in 1..Len(ks) : i # j => ks[i] # ks[j] }

\* a timetable with these keys
Dict(ks) == [ i \in 1..Len(ks) |-> [station |-> ks[i], times |-> << <<6, 0>> >>] ]

InitCatalog ==
    /\ now = At(5, 0, 0)
    /\ \E go \in KeyLists, ret \in KeyLists :
           /\ go_schedule = Dict(go)
           /\ return_schedule = Dict(ret)
    /\ reports_collection = TRUE
    /\ MONGO_AVAILABLE = TRUE
    /\ InitCommon
    /\ InitNoVotes

NextCatalog == \E u \in Users : report_new_arrival(u)

SpecCatalog == InitCatalog /\ [][NextCatalog]_vars

\* the number of positions of seq that hold x
Occurrences(seq, x) == Cardinality({ i \in 1..Len(seq) : seq[i] = x })

\* C12: the station list is the go timetable's keys in key order followed by
\* the return timetable's keys that are no go key, in key order; every station
\* of either timetable occurs in it exactly once and nothing else does; a
\* station of both timetables stands at its go position; and a second call
\* on the same timetables returns the same list.
C12_StationCatalog ==
    /\ [](last.op = "report_new_arrival" =>
            LET out     == last.stations
                go      == keys(go_schedule)
                ret     == keys(return_schedule)
                inGo(x) == \E i \in 1..Len(go) : go[i] = x
            IN  /\ out = go \o SelectSeq(ret, LAMBDA x : ~inGo(x))
                /\ \A x \in StationPool :
                       Occurrences(out, x) = IF x \in CatalogStations THEN 1 ELSE 0
                /\ \A i \in 1..Len(out) : out[i] \in CatalogStations
                /\ \A i \in 1..Len(go) : out[i] = go[i])
    /\ [][ (last.op = "report_new_arrival" /\ last'.op = "report_new_arrival")
               => last'.stations = last.stations ]_vars

\* C12 witness: the list of four stations built from three go stations and
\* two return stations, of which the first is a go station too.
C12_Witness ==
    /\ last.op = "report_new_arrival"
    /\ Len(go_schedule) = 3 /\ Len(return_schedule) = 2
    /\ return_schedule[1].station = go_schedule[3].station
    /\ Len(last.stations) = 4

\* the buttons of a keyboard read row by row, left to right
RECURSIVE ReadingOrder(_)
ReadingOrder(rows) ==
    IF rows = << >> THEN << >> ELSE Head(rows) \o ReadingOrder(Tail(rows))

\* C25: the keyboard of report_new_arrival, without its last row (the back
\* button), read row by row holds one button per station of
\* get_all_stations_ordered, in that order, each carrying that station's
\* callback data; every row has two buttons except a last row of one when
\* the number of stations is odd.
C25_ReportMenuIsCatalog ==
    last.op = "report_new_arrival" =>
        LET rows    == SubSeq(last.station_buttons, 1, Len(last.station_buttons) - 1)
            buttons == ReadingOrder(rows)
            catalog == get_all_stations_ordered
        IN  /\ Len(last.station_buttons) >= 1
            /\ last.station_buttons[Len(last.station_buttons)][1].callback_data
                   = << "report_train" >>
            /\ Len(buttons) = Len(catalog)
            /\ \A i \in 1..Len(catalog) :
                   /\ buttons[i].text = catalog[i]
                   /\ buttons[i].callback_data = << "report_station_", catalog[i] >>
            /\ \A x \in CatalogStations :
                   Cardinality({ i \in 1..Len(buttons) : buttons[i].text = x }) = 1
            /\ \A k \in 1..Len(rows) :
                   Len(rows[k]) = IF k < Len(rows) \/ Len(catalog) % 2 = 0
                                  THEN 2 ELSE 1
            /\ \A k \in 1..Len(rows) : \A j \in 1..Len(rows[k]) :
                   rows[k][j].text = catalog[2 * (k - 1) + j]

\* C25 witness: the menu of a catalog of three stations, a full row and a row
\* of one, with a station of both timetables offered once.
C25_Witness ==
    /\ last.op = "report_new_arrival"
    /\ Len(get_all_stations_ordered) = 3
    /\ Len(last.station_buttons) = 3
    /\ Len(last.station_buttons[1]) = 2
    /\ Len(last.station_buttons[2]) = 1
    /\ \E i \in 1..Len(go_schedule), j \in 1..Len(return_schedule) :
           go_schedule[i].station = return_schedule[j].station

-----------------------------------------------------------------------------
(* Report views: C13 - C16, C19, C21, checked under SpecView *)

\* the instants at which the stored reports of these runs were created: two
\* in one minute and one in the minute before, all on day 0
ViewStamps   == { At(23, 58, 30), At(23, 59, 0), At(23, 59, 59) }
ViewStations == { "Agha", "Blida" }

\* the collections that at most MaxStored submissions leave, none deleted:
\* ids in insertion order, timestamps increasing (they carry microseconds, so
\* no two are equal), the submitters taking turns
ViewStores ==
    LET Field == ViewStations \X Directions \X ViewStamps
        Ok(f) == \A i \in DOMAIN f, j \in DOMAIN f : i < j => f[i][3] < f[j][3]
    IN  { [ i \in DOMAIN f |->
              [ _id       |-> i,
                station   |-> f[i][1],
                direction |-> f[i][2],
                time      |-> strftime(f[i][3]),
                timestamp |-> f[i][3],
                user_id   |-> str(((i - 1) % NumUsers) + 1) ] ] :
          f \in { g \in UNION { [1..n -> Field] : n \in 0..MaxStored } : Ok(g) } }

InitView ==
    /\ now = At(23, 59, 59)
    /\ go_schedule = Dict(<< "Agha" >>)
    /\ return_schedule = Dict(<< "Blida" >>)
    /\ reports_collection = TRUE
    /\ MONGO_AVAILABLE = TRUE
    /\ reports \in ViewStores
    /\ nextId = Len(reports) + 1
    /\ user_data = [u \in Users |-> NoSession]
    /\ last = Quiet("init")
    /\ deleted = [i \in Ids |-> 0]
    /\ InitNoVotes

NextView ==
    \/ \E u \in Users, d \in Directions, fails \in BOOLEAN :
           view_reports_direction_(u, d, fails)
    \/ \E u \in Users, st \in ViewStations, fails \in BOOLEAN :
           view_station_filtered_(u, st, fails)
    \/ \E u \in Users, fails \in BOOLEAN : delete_my_reports(u, fails)
    \/ Tick

SpecView == InitView /\ [][NextView]_vars

\* the step of a view_station_filtered_ callback that grouped a result list
Grouped == last.op = "view_station_filtered" /\ last.raw # << >>

\* the key of a report in group_reports_by_minute: station, direction and the
\* creation time truncated to the minute
KeyOf(r) == << r.station, r.direction, r.timestamp - (r.timestamp % SecPerMin) >>

\* the keys present in a list of reports, and the positions of a key
KeysIn(rs)     == { KeyOf(rs[i]) : i \in 1..Len(rs) }
WithKey(rs, k) == { i \in 1..Len(rs) : KeyOf(rs[i]) = k }

\* the entries of a grouped list that stand for a key
EntriesOf(out, k) ==
    { i \in 1..Len(out) : /\ out[i].station = k[1]
                          /\ out[i].direction = k[2]
                          /\ out[i].time_str = strftime(k[3]) }

RECURSIVE SumCounts(_)
SumCounts(out) == IF out = << >> THEN 0 ELSE Head(out).count + SumCounts(Tail(out))

\* C13: the grouped list has exactly one entry per (station, direction,
\* minute) key present in the input, the entry's count is the number of input
\* reports with that key, and the counts add up to the size of the input; the
\* empty input gives the empty list.
C13_GroupingPartitions ==
    /\ Grouped =>
          LET rs  == last.raw
              out == last.groups
          IN  /\ Len(out) = Cardinality(KeysIn(rs))
              /\ \A k \in KeysIn(rs) :
                     /\ Cardinality(EntriesOf(out, k)) = 1
                     /\ \A i \in EntriesOf(out, k) :
                            out[i].count = Cardinality(WithKey(rs, k))
              /\ SumCounts(out) = Len(rs)
    /\ group_reports_by_minute(<< >>) = << >>

\* C13 witness: three reports were grouped into two entries, one of count 2.
C13_Witness ==
    /\ Grouped
    /\ Len(last.raw) = 3
    /\ Len(last.groups) = 2
    /\ \E i \in 1..2 : last.groups[i].count = 2

\* C14: in the grouped list the time of an entry is never earlier than the
\* time of the entry after it.
C14_GroupsNewestFirst ==
    Grouped =>
        \A i \in 1..(Len(last.groups) - 1) :
            HM(last.groups[i].time_str) >= HM(last.groups[i + 1].time_str)

\* C14 witness: a grouped list of two entries of different minutes, built
\* from reports that were stored oldest first.
C14_Witness ==
    /\ Grouped
    /\ Len(last.groups) = 2
    /\ last.groups[1].time_str # last.groups[2].time_str
    /\ last.raw[1].timestamp < last.raw[Len(last.raw)].timestamp

OfStation(rs, st) == { i \in 1..Len(rs) : rs[i].station = st }
MinStamp(rs, st) ==
    CHOOSE t \in { rs[i].timestamp : i \in OfStation(rs, st) } :
        \A i \in OfStation(rs, st) : t <= rs[i].timestamp

\* C16: after a viewing direction is chosen and the store has answered, the
\* list the handler works on is the stored reports of that direction inside
\* the day window; every station with such a report is in the station list
\* exactly once, no other station is, and the stations stand in ascending
\* order of the least timestamp of their reports.
C16_StationsByEarliestReport ==
    (last.op = "view_reports_direction" /\ ~last.raised) =>
        LET rs  == last.raw
            out == last.stations
        IN  /\ rs = SelectSeq(reports, LAMBDA r :
                         r.direction = last.arg /\ InDayRange(r))
            /\ \A i \in 1..Len(rs) : Occurrences(out, rs[i].station) = 1
            /\ \A i \in 1..Len(out) : OfStation(rs, out[i]) # {}
            /\ \A i \in 1..(Len(out) - 1) :
                   MinStamp(rs, out[i]) <= MinStamp(rs, out[i + 1])

\* C16 witness: two stations are listed; the one listed first has the oldest
\* report and also the newest one.
C16_Witness ==
    /\ last.op = "view_reports_direction" /\ ~last.raised
    /\ Len(last.stations) = 2
    /\ Len(last.raw) = 3
    /\ last.raw[1].station = last.stations[1]
    /\ last.raw[2].station = last.stations[2]
    /\ last.raw[3].station = last.stations[1]

\* the report was created before the current local date
FromEarlierDay(r) == LocalDate(r.timestamp) < LocalDate(now)

\* C19: the day-scoped views, the delete menu and the change of day leave the
\* stored reports as they are; a report created before the current local day
\* is still stored, is still returned by the query by creator and offered in
\* its creator's delete menu, and a delete of its id still removes it.
C19_DayFilterHidesOnly ==
    /\ [][ reports' = reports ]_vars
    /\ [](\A r \in Stored(reports) : FromEarlierDay(r) =>
            /\ \E u \in Users :
                   /\ str(u) = r.user_id
                   /\ r \in Stored(get_reports_by_user_id(u, FALSE))
            /\ delete_report_from_db(r._id, FALSE).ret = TRUE
            /\ r \notin Stored(delete_report_from_db(r._id, FALSE).docs))
    /\ [](\A r \in Stored(reports) :
            (last.op = "delete_my_reports" /\ ~last.raised
                /\ r.user_id = str(last.user))
              => \E i \in 1..Len(last.buttons) : last.buttons[i] = r._id)

\* C19 witness: on the day after three reports of one direction were created,
\* a view of that direction has just shown none of them, and they are still
\* stored.
C19_Witness ==
    /\ last.op = "view_reports_direction" /\ ~last.raised
    /\ last.raw = << >>
    /\ Len(reports) = 3
    /\ \A r \in Stored(reports) : r.direction = last.arg /\ FromEarlierDay(r)

\* the replies that say that there is nothing to show for today
NoDataReplies == { "no_reports_today", "no_reports_station" }

\* C21: a view replies 'no reports for today' only when the store was
\* queried, the query did not raise and it matched no report; when the store
\* is unavailable or the query raises, the reply is the store-unavailable
\* one.
C21_NoDataDistinctFromFailure ==
    (last.op \in { "view_reports_direction", "view_station_filtered" }) =>
        LET failed == last.raised \/ ~reports_collection \/ ~MONGO_AVAILABLE
        IN  /\ (\E i \in 1..Len(last.msgs) : last.msgs[i] \in NoDataReplies)
                  => ~failed
            /\ (failed /\ last.msgs # << "error_restart" >>)
                  => last.msgs = << "db_unavailable" >>

-----------------------------------------------------------------------------
(* The counts of the station list: C31, checked under SpecView *)

RECURSIVE Sum(_)
Sum(ns) == IF ns = << >> THEN 0 ELSE Head(ns) + Sum(Tail(ns))

\* C31: in the station list of view_reports_direction_*, the count next to a
\* station is the number of reports of that station in the list the query
\* returned, which is the number of stored reports of that station and the
\* chosen direction in the day window; every count is at least 1; no station
\* is listed twice; and the counts add up to the number of reports the query
\* returned for the direction.
C31_StationCounts ==
    (last.op = "view_reports_direction" /\ ~last.raised) =>
        /\ Len(last.counts) = Len(last.stations)
        /\ \A i \in 1..Len(last.stations) :
               /\ last.counts[i] = Cardinality(OfStation(last.raw, last.stations[i]))
               /\ last.counts[i] =
                      Cardinality(InWindow(TRUE, last.stations[i], last.arg))
               /\ last.counts[i] >= 1
               /\ \A j \in 1..Len(last.stations) :
                      last.stations[i] = last.stations[j] => i = j
        /\ Sum(last.counts) = Len(last.raw)
        /\ Sum(last.counts) = Cardinality(InWindow(FALSE, None, last.arg))

\* C31 witness: of three stored reports of the chosen direction two are of
\* one station and one of another; the list shows the counts 2 and 1 in some
\* order.
C31_Witness ==
    /\ last.op = "view_reports_direction" /\ ~last.raised
    /\ Len(last.raw) = 3
    /\ Len(last.stations) = 2
    /\ { last.counts[1], last.counts[2] } = { 1, 2 }

-----------------------------------------------------------------------------
(* The session of the viewing flow: C30, checked under SpecView *)

\* C30: a view_station_filtered_ callback of a user whose session holds no
\* view_direction replies with the restart error and makes no store query;
\* otherwise every report it received and every entry it shows has the
\* direction held in that user's session, and a user's view_direction is
\* written by that user's own view_reports_direction_ callback only, which
\* sets it to the direction of the callback.
C30_ViewingSession ==
    /\ []((last.op = "view_station_filtered"
             /\ user_data[last.user].view_direction = None) =>
              /\ last.msgs = << "error_restart" >>
              /\ ~last.queried
              /\ last.raw = << >>
              /\ last.shown = << >>)
    /\ []((last.op = "view_station_filtered"
             /\ user_data[last.user].view_direction # None) =>
              /\ \A i \in 1..Len(last.raw) :
                     last.raw[i].direction = user_data[last.user].view_direction
              /\ \A i \in 1..Len(last.shown) :
                     last.shown[i].direction = user_data[last.user].view_direction)
    /\ [][ /\ \A u \in Users :
                 user_data'[u].view_direction # user_data[u].view_direction =>
                     /\ last'.op = "view_reports_direction"
                     /\ last'.user = u
           /\ last'.op = "view_reports_direction" =>
                 user_data'[last'.user].view_direction = last'.arg ]_vars

\* C30 witness: the two users hold different directions, the store has
\* reports of the station in both, and the second user's station view shows
\* reports.
C30_Witness ==
    /\ last.op = "view_station_filtered"
    /\ last.user = 2
    /\ user_data[1].view_direction # None
    /\ user_data[2].view_direction # None
    /\ user_data[1].view_direction # user_data[2].view_direction
    /\ last.shown # << >>
    /\ \E r \in Stored(reports) :
          /\ r.station = last.arg
          /\ r.direction = user_data[1].view_direction
          /\ InDayRange(r)

-----------------------------------------------------------------------------
(* Submissions and the views of them: C26, C27, checked under SpecFlow *)

\* the step of a view_station_filtered_ callback whose query ran and returned
Queried ==
    /\ last.op = "view_station_filtered"
    /\ ~last.raised
    /\ user_data[last.user].view_direction # None

\* C26: a station view of station S and direction D shows, for every stored
\* report of S and D created on the current local calendar day, an entry of
\* that report's minute with a count of at least one.
C26_ReadYourWrite ==
    Queried =>
        \A r \in Stored(reports) :
            ( /\ r.station = last.arg
              /\ r.direction = user_data[last.user].view_direction
              /\ LocalDate(r.timestamp) = LocalDate(now) )
            => \E i \in EntriesOf(last.shown, KeyOf(r)) : last.shown[i].count >= 1

\* C27: every successful submission lengthens the store by one report with
\* an id no stored report has and keeps the stored reports, and no other step
\* of these runs changes the store, so N successful submissions leave N
\* reports with N distinct ids; grouping the stored reports gives, for every
\* (station, direction, minute) key, one entry whose count is the number of
\* stored reports of that key, and so does the station view for the reports
\* of its station and direction in its window.
C27_SubmissionsNeitherMergedNorLost ==
    /\ [][ IF last'.op = "report_direction" /\ last'.ret # 0
           THEN /\ Len(reports') = Len(reports) + 1
                /\ SubSeq(reports', 1, Len(reports)) = reports
                /\ reports'[Len(reports')]._id \notin StoredIds(reports)
           ELSE reports' = reports ]_vars
    /\ [](Cardinality(StoredIds(reports)) = Len(reports))
    /\ [](\A k \in KeysIn(reports) :
             LET out == group_reports_by_minute(reports)
             IN  /\ Cardinality(EntriesOf(out, k)) = 1
                 /\ \A i \in EntriesOf(out, k) :
                        out[i].count = Cardinality(WithKey(reports, k)))
    /\ [](Queried =>
             LET mine == InWindow(TRUE, last.arg,
                                  user_data[last.user].view_direction)
             IN  \A r \in mine :
                     /\ Cardinality(EntriesOf(last.groups, KeyOf(r))) = 1
                     /\ \A i \in EntriesOf(last.groups, KeyOf(r)) :
                            last.groups[i].count =
                                Cardinality({ q \in mine : KeyOf(q) = KeyOf(r) }))

\* C27 witness: two users submitted the same station and direction in the
\* same minute, both reports are stored, and the station view shows one entry
\* of count 2.
C27_Witness ==
    /\ Queried
    /\ Len(reports) = 2
    /\ reports[1].user_id # reports[2].user_id
    /\ reports[1]._id # reports[2]._id
    /\ KeyOf(reports[1]) = KeyOf(reports[2])
    /\ Len(last.groups) = 1
    /\ last.groups[1].count = 2

-----------------------------------------------------------------------------
(* The delete menu: C29, checked under SpecMenu *)

\* who created the i-th stored report: the first user every report, the
\* users in turn, or the first user all but the first
MenuOwners == { [ i \in 1..MaxMenu |-> 1 ],
                [ i \in 1..MaxMenu |-> ((i - 1) % NumUsers) + 1 ],
                [ i \in 1..MaxMenu |-> IF i = 1 THEN NumUsers ELSE 1 ] }

\* find() without sort returns the documents in the store's natural order,
\* which need not be the order of creation: the creation ranks are the
\* positions rotated by one of these
MenuRotations == { 0, 1, 5 }

\* the stores of up to MaxMenu reports, created 61 seconds apart
MenuStores ==
    { [ i \in 1..n |->
          LET stamp == At(23, 0, 0) + ((i - 1 + rot) % n) * 61
          IN  [ _id       |-> i,
                station   |-> IF i % 3 = 0 THEN None ELSE "Agha",
                direction |-> IF i % 2 = 0 THEN DIRECTION_GO ELSE DIRECTION_RETURN,
                time      |-> strftime(stamp),
                timestamp |-> stamp,
                user_id   |-> str(owner[i]) ] ] :
      n \in 0..MaxMenu, owner \in MenuOwners, rot \in MenuRotations }

InitMenu ==
    /\ now = At(23, 59, 59)
    /\ go_schedule = LineGo
    /\ return_schedule = LineReturn
    /\ reports_collection = TRUE
    /\ MONGO_AVAILABLE = TRUE
    /\ reports \in MenuStores
    /\ nextId = Len(reports) + 1
    /\ user_data = [u \in Users |-> NoSession]
    /\ last = Quiet("init")
    /\ deleted = [i \in Ids |-> 0]
    /\ InitNoVotes

NextMenu == \E u \in Users, fails \in BOOLEAN : delete_my_reports(u, fails)

SpecMenu == InitMenu /\ [][NextMenu]_vars

\* the stored report with this _id
ReportOf(report_id) == CHOOSE r \in Stored(reports) : r._id = report_id

\* the stored reports whose user_id is str(u)
OwnReports(u) == { r \in Stored(reports) : r.user_id = str(u) }

\* C29: the delete menu of user u offers only reports whose user_id is
\* str(u), each once, the newer before the older, at most 15 of them and all
\* of them when the user has no more than 15; a report left out is no newer
\* than any report offered; the i-th line shows the station, direction and
\* time of the report whose id the i-th delete button carries.
C29_DeleteMenu ==
    (last.op = "delete_my_reports" /\ ~last.raised) =>
        LET ids  == last.buttons
            own  == OwnReports(last.user)
            seen == { ids[i] : i \in 1..Len(ids) }
        IN  /\ seen \subseteq { r._id : r \in own }
            /\ Cardinality(seen) = Len(ids)
            /\ Len(ids) <= 15
            /\ Len(ids) = IF Cardinality(own) < 15 THEN Cardinality(own) ELSE 15
            /\ \A i \in 1..Len(ids), j \in 1..Len(ids) :
                   i < j => ReportOf(ids[i]).timestamp >= ReportOf(ids[j]).timestamp
            /\ \A r \in own : r._id \notin seen =>
                   \A i \in 1..Len(ids) : r.timestamp <= ReportOf(ids[i]).timestamp
            /\ Len(last.lines) = Len(ids)
            /\ \A i \in 1..Len(ids) :
                   /\ last.lines[i].n = i
                   /\ last.lines[i].station = ReportOf(ids[i]).station
                   /\ last.lines[i].direction = ReportOf(ids[i]).direction
                   /\ last.lines[i].time_str = ReportOf(ids[i]).time

\* C29 witness: a user with sixteen reports in a store of seventeen, which
\* the store returns out of creation order, was offered fifteen.
C29_Witness ==
    /\ last.op = "delete_my_reports" /\ ~last.raised
    /\ Len(reports) = 17
    /\ Cardinality(OwnReports(last.user)) = 16
    /\ \E i \in 1..16 : reports[i].timestamp > reports[i + 1].timestamp
    /\ Len(last.buttons) = 15

-----------------------------------------------------------------------------
(* CredibilityEngine (spec section 4.5).  castVote is two steps per invocation:
   steps 1-3 read the user's vote and compute the delta, step 4 is the single
   atomic update of the store.  A user has at most one invocation in flight
   (spec section 5: one interaction at a time per conversation). *)

UP   == "UP"
DOWN == "DOWN"
Votes == {UP, DOWN}

\* mutant of same_vote: the repeat of a vote is not recognised
same_vote_never(stored, vote) == FALSE

\* step 2: the stored vote equals the requested vote
same_vote(stored, vote) == stored = vote

\* mutant of delta: a switch raises the new counter and leaves the old one
delta_no_decrement(stored, vote) ==
    IF vote = UP THEN <<1, 0>> ELSE <<0, 1>>

\* mutant of delta_switch: the two switches are exchanged
delta_switch_exchanged(vote) == IF vote = UP THEN <<-1, 1>> ELSE <<1, -1>>

\* step 3 for a stored vote: UP->DOWN is (-1, +1), DOWN->UP is (+1, -1)
delta_switch(vote) == IF vote = UP THEN <<1, -1>> ELSE <<-1, 1>>

\* step 3: the signed delta for (upvotes, downvotes)
delta(stored, vote) ==
    IF stored = None THEN (IF vote = UP THEN <<1, 0>> ELSE <<0, 1>>)
                     ELSE delta_switch(vote)

\* mutant of increment: the new value is computed from the value read in
\* step 1 and written back (read, compute, write)
increment_from_read(current, seen, d) == seen + d

\* step 4: the store's atomic increment of a counter
increment(current, seen, d) == current + d

\* castVote steps 1-3
castVote_read(u, reportId, vote) ==
    /\ voteOp[u].pc = "idle"
    /\ IF reportId \notin StoredIds(reports)
       THEN /\ last' = [ op |-> "castVote", user |-> u, arg |-> reportId,
                         raised |-> FALSE, vote |-> vote, ret |-> "NotFound",
                         msgs |-> << "generic_failure" >> ]
            /\ UNCHANGED voteVars
       ELSE IF same_vote(userVotes[reportId][u], vote)
       THEN /\ last' = [ op |-> "castVote", user |-> u, arg |-> reportId,
                         raised |-> FALSE, vote |-> vote, ret |-> "Unchanged",
                         msgs |-> << "tally" >> ]
            /\ UNCHANGED voteVars
       ELSE /\ voteOp' = [voteOp EXCEPT ![u] =
                   [ pc |-> "update", report |-> reportId, vote |-> vote,
                     delta |-> delta(userVotes[reportId][u], vote),
                     seen |-> << upvotes[reportId], downvotes[reportId] >> ]]
            /\ last' = [ op |-> "castVote", user |-> u, arg |-> reportId,
                         raised |-> FALSE, vote |-> vote, ret |-> "Pending",
                         msgs |-> << >> ]
            /\ UNCHANGED <<upvotes, downvotes, userVotes>>
    /\ UNCHANGED <<storeVars, schedVars, user_data, now>>

\* castVote step 4
castVote_update(u) ==
    LET op == voteOp[u]
        id == op.report
    IN  /\ op.pc = "update"
        /\ userVotes' = [userVotes EXCEPT ![id][u] = op.vote]
        /\ upvotes'   = [upvotes EXCEPT
                            ![id] = increment(@, op.seen[1], op.delta[1])]
        /\ downvotes' = [downvotes EXCEPT
                            ![id] = increment(@, op.seen[2], op.delta[2])]
        /\ voteOp' = [voteOp EXCEPT ![u] = NoVoteOp]
        /\ last' = [ op |-> "castVote", user |-> u, arg |-> id, raised |-> FALSE,
                     vote |-> op.vote, ret |-> "Updated", msgs |-> << "tally" >>,
                     \* history: the counters changed between step 1 and step 4
                     stale |-> op.seen # << upvotes[id], downvotes[id] >> ]
        /\ UNCHANGED <<storeVars, schedVars, user_data, now>>

\* the stored report the votes are cast on
VotedReport(id) ==
    [ _id |-> id, station |-> "Agha", direction |-> DIRECTION_GO,
      time |-> strftime(At(23, 59, 59)), timestamp |-> At(23, 59, 59),
      user_id |-> str(1) ]

InitVote ==
    /\ now = At(23, 59, 59)
    /\ go_schedule = LineGo
    /\ return_schedule = LineReturn
    /\ reports_collection = TRUE
    /\ MONGO_AVAILABLE = TRUE
    /\ user_data = [u \in Users |-> NoSession]
    /\ last = Quiet("init")
    /\ deleted = [i \in Ids |-> 0]
    /\ reports = << VotedReport(1) >>
    /\ nextId = 2
    /\ InitNoVotes

NextVote ==
    \/ \E u \in Users, id \in StoredIds(reports) \cup {nextId}, v \in Votes :
           castVote_read(u, id, v)
    \/ \E u \in Users : castVote_update(u)

SpecVote == InitVote /\ [][NextVote]_vars

-----------------------------------------------------------------------------
(* Vote tallies: C5 - C8, checked under SpecVote *)

Voters(id, v) == { u \in Users : userVotes[id][u] = v }

Tally(id) ==
    /\ upvotes[id] = Cardinality(Voters(id, UP))
    /\ downvotes[id] = Cardinality(Voters(id, DOWN))

\* the step is the invocation castVote(id, u, v)
IsCast(u, id, v) ==
    /\ voteOp[u].pc = "idle"
    /\ last'.op = "castVote" /\ last'.ret # "Updated"
    /\ last'.user = u /\ last'.arg = id /\ last'.vote = v

\* the step is the atomic update of u's invocation
IsUpdate(u) == voteOp[u].pc = "update" /\ voteOp'[u].pc = "idle"

\* C5: after every castVote step (first cast, switch, repeat) upvotes is the
\* number of users whose recorded vote is UP, downvotes the number whose
\* recorded vote is DOWN, and neither counter is negative.
C5_TallyMatchesUserVotes ==
    \A id \in Ids : Tally(id) /\ upvotes[id] >= 0 /\ downvotes[id] >= 0

\* C5 witness: a switch has just been applied to a report on which every user
\* has a recorded vote, in both values.
C5_Witness ==
    /\ last.op = "castVote" /\ last.ret = "Updated"
    /\ Voters(last.arg, UP) # {} /\ Voters(last.arg, DOWN) # {}
    /\ Voters(last.arg, None) = {}
    /\ upvotes[last.arg] + downvotes[last.arg] = NumUsers

\* C6: a user who casts the value already recorded for them leaves upvotes,
\* downvotes and userVotes unchanged, and no update is left pending.
C6_RepeatIsNoOp ==
    [][ \A u \in Users, id \in StoredIds(reports), v \in Votes :
            (IsCast(u, id, v) /\ userVotes[id][u] = v)
                => /\ upvotes' = upvotes
                   /\ downvotes' = downvotes
                   /\ userVotes' = userVotes
                   /\ voteOp'[u].pc = "idle" ]_vars

\* C6 witness: a vote has just been repeated on a report that carries votes.
C6_Witness ==
    /\ last.op = "castVote" /\ last.ret = "Unchanged"
    /\ userVotes[last.arg][last.user] = last.vote
    /\ upvotes[last.arg] + downvotes[last.arg] >= 2

C8_ConcurrentVotesNotLost ==
    /\ [][ \A id \in Ids :
               (userVotes'[id] # userVotes[id])
                   <=> (<<upvotes'[id], downvotes'[id]>> # <<upvotes[id], downvotes[id]>>) ]_vars
    /\ [][ \A u \in Users : IsUpdate(u) =>
               /\ userVotes'[voteOp[u].report][u] = voteOp[u].vote
               /\ \A id \in Ids, u2 \in Users :
                      (id # voteOp[u].report \/ u2 # u)
                          => userVotes'[id][u2] = userVotes[id][u2] ]_vars
    /\ []((\A u \in Users : voteOp[u].pc = "idle") => \A id \in Ids : Tally(id))

\* C8 witness: an update has just been applied whose invocation began before
\* another user's update on the same report, i.e. while the counters it read
\* in step 1 were no longer the stored ones.
C8_Witness ==
    /\ last.op = "castVote" /\ last.ret = "Updated"
    /\ \A u \in Users : voteOp[u].pc = "idle"
    /\ \E u \in Users \ {last.user} : userVotes[last.arg][u] # None
    /\ last.stale

====
